---- MODULE Spec2Model ----
(***************************************************************************)
(* The todo-list application: the redux store (src/store/index.ts), the    *)
(* list view Index (src/components/MainApp/index.tsx), the input widget    *)
(* InputNewTodo (src/unnamed/part_000) and the assignment widget           *)
(* UserSelect (src/components/UserSelect/index.tsx).                       *)
(*                                                                         *)
(* JavaScript arrays are objects with identity: the model keeps them in a  *)
(* heap, ref |-> content, so that "the same array, pushed to" and "a new   *)
(* array" are different things.  Todo objects are never written after      *)
(* they are created (every handler copies with {...t}), so they are        *)
(* values.  Indices are JavaScript's: element i of a list is seq[i + 1].   *)
(***************************************************************************)
EXTENDS Integers, Sequences, FiniteSets, TLC

VARIABLES
    heap,           \* the arrays alive: ref |-> sequence of todos
    state,          \* the store's slice state.list: [todos |-> ref]
    propsTodos,     \* Index: this.props.todos, the ref App selected and passed
    selTodos,       \* UserSelect: todos, the ref useSelector returned at its render
    todoTitle,      \* Index: this.state.todoTitle, the draft shown in the input
    inputState,     \* InputNewTodo: this.state (null until the first setState)
    allTodosIsDone, \* window.allTodosIsDone, as the last render left it
    selects,        \* the mounted UserSelect of each rendered row: its fetch
    hist,           \* the last user event or store request: what was asked,
                    \* and what held before it
    orphans,        \* the fetches in flight whose UserSelect is unmounted
    lateUpdate      \* setOptions has been called on an unmounted UserSelect

vars == <<heap, state, propsTodos, selTodos, todoTitle, inputState,
          allTodosIsDone, selects, hist, orphans, lateUpdate>>

----------------------------------------------------------------------------
(* Bounds and input sets *)

MaxTodos == 2
MaxUsers == 2
MaxOrphans == 1

Enter == 13

SP == " "
CA == "a"

\* the strings the user types: empty, blank, plain, padded on both sides
Drafts == { <<>>, <<SP>>, <<CA>>, <<SP, CA, SP>> }

\* Enter, and a key that is not Enter
KeyCodes == {Enter, Enter + 52}

UserIds == 1..MaxUsers

Undefined == [kind |-> "undefined", v |-> 0]
Num(n) == [kind |-> "number", v |-> n]
Str(n) == [kind |-> "string", v |-> n]

\* the todos a caller of the store hands in
StoreTodos == [title : {<<CA>>}, isDone : BOOLEAN, user : {Undefined, Num(1)}]

RECURSIVE ListsUpTo(_, _)
ListsUpTo(S, n) ==
    IF n = 0 THEN { <<>> }
    ELSE LET shorter == ListsUpTo(S, n - 1)
         IN shorter \cup { Append(l, x) : l \in {m \in shorter : Len(m) = n - 1}, x \in S }

\* the todos of the lists a caller replaces the whole list with
ReplaceTodos == { [title |-> <<CA>>, isDone |-> FALSE, user |-> Undefined],
                  [title |-> <<CA>>, isDone |-> TRUE, user |-> Num(1)] }

StoreLists == ListsUpTo(ReplaceTodos, MaxTodos)

Indices == (0 - 1)..MaxTodos

----------------------------------------------------------------------------
(* Pure functions of the code *)

IsSpace(c) == c = SP

RECURSIVE TrimStart(_)
TrimStart(s) ==
    IF s # <<>> /\ IsSpace(Head(s)) THEN TrimStart(Tail(s)) ELSE s

RECURSIVE TrimEnd(_)
TrimEnd(s) ==
    IF s # <<>> /\ IsSpace(s[Len(s)]) THEN TrimEnd(SubSeq(s, 1, Len(s) - 1)) ELSE s

\* a trim that trims nothing
TrimNothing(s) == s

\* String.prototype.trim
Trim(s) == TrimEnd(TrimStart(s))

\* Array.prototype.filter((t, index) => index !== payload)
RECURSIVE FilterOut(_, _, _)
FilterOut(todos, payload, index) ==
    IF todos = <<>> THEN <<>>
    ELSE IF index # payload
         THEN <<Head(todos)>> \o FilterOut(Tail(todos), payload, index + 1)
         ELSE FilterOut(Tail(todos), payload, index + 1)

\* the render loop over this.props.todos: every element overwrites the flag
RECURSIVE FlagAfter(_, _)
FlagAfter(todos, flag) ==
    IF todos = <<>> THEN flag
    ELSE FlagAfter(Tail(todos), IF ~Head(todos).isDone THEN FALSE ELSE TRUE)

AllTodosIsDone(todos) == FlagAfter(todos, TRUE)

\* a toggle that flips every row up to idx
ToggleUpTo(todos, idx) ==
    [k \in 1..Len(todos) |->
        IF k - 1 <= idx THEN [todos[k] EXCEPT !.isDone = ~todos[k].isDone]
        ELSE todos[k]]

\* a toggle that takes an index past the end for the last row
ToggleClamped(todos, idx) ==
    [k \in 1..Len(todos) |->
        IF k - 1 = idx \/ (idx >= Len(todos) /\ k = Len(todos))
        THEN [todos[k] EXCEPT !.isDone = ~todos[k].isDone]
        ELSE todos[k]]

\* a toggle that ticks the row at idx whatever it was
ToggleSetDone(todos, idx) ==
    [k \in 1..Len(todos) |->
        IF k - 1 = idx THEN [todos[k] EXCEPT !.isDone = TRUE]
        ELSE todos[k]]

\* the checkbox handler's map: a copy of every todo, isDone flipped at idx
ToggleTodos(todos, idx) ==
    [k \in 1..Len(todos) |->
        IF k - 1 = idx THEN [todos[k] EXCEPT !.isDone = ~todos[k].isDone]
        ELSE todos[k]]

\* handleChange's map: a copy of every todo, user set to the select's value at idx
AssignTodos(todos, idx, value) ==
    [k \in 1..Len(todos) |->
        IF k - 1 = idx THEN [todos[k] EXCEPT !.user = value]
        ELSE todos[k]]

----------------------------------------------------------------------------
(* The heap of arrays *)

\* a ref no live array has: the smallest one
Alloc(used) ==
    CHOOSE r \in 1..(Cardinality(used) + 1) :
        r \notin used /\ \A q \in 1..(r - 1) : q \in used

\* the arrays something still refers to
Collect(hp, roots) == [r \in roots |-> hp[r]]

\* An address means nothing but identity: the live arrays are numbered in
\* the order their holders are listed in, so that two heaps that differ
\* only in their addresses are one state.
Renumber(holders, r) ==
    LET UpTo(i) == {holders[j] : j \in 1..i}
        first   == CHOOSE i \in 1..Len(holders) :
                       holders[i] = r /\ r \notin UpTo(i - 1)
    IN Cardinality(UpTo(first))

----------------------------------------------------------------------------
(* The store: the reducer of the slice "list" *)

\* an add that puts the todo first (unshift for push)
AddTodoFirst(st, hp, payload) ==
    [state |-> st,
     heap  |-> [hp EXCEPT ![st.todos] = <<payload>> \o @]]

\* case 'ADD_TODO': newState = state; newState.todos.push(payload); return newState
AddTodoCase(st, hp, payload) ==
    [state |-> st,
     heap  |-> [hp EXCEPT ![st.todos] = Append(@, payload)]]

\* a remove that takes an index past the end for the last element
RemoveTodoClamped(st, hp, payload) ==
    LET r    == Alloc(DOMAIN hp)
        last == Len(hp[st.todos]) - 1
    IN [state |-> [st EXCEPT !.todos = r],
        heap  |-> hp @@ (r :> FilterOut(hp[st.todos],
                                        IF payload > last THEN last ELSE payload, 0))]

\* case 'REMOVE_TODO': return {...state, todos: state.todos.filter(...)}
RemoveTodoCase(st, hp, payload) ==
    LET r == Alloc(DOMAIN hp)
    IN [state |-> [st EXCEPT !.todos = r],
        heap  |-> hp @@ (r :> FilterOut(hp[st.todos], payload, 0))]

\* a replace that adds the payload's todos to the ones held
ChangeTodosConcat(st, hp, payload) ==
    [state |-> st,
     heap  |-> [hp EXCEPT ![st.todos] = @ \o hp[payload]]]

\* case 'CHANGE_TODOS': return {todos: payload}; payload is the caller's array
ChangeTodosCase(st, hp, payload) ==
    [state |-> [todos |-> payload],
     heap  |-> hp]

\* a default that returns the initial state {todos: []}
DefaultInitial(st, hp) ==
    LET r == Alloc(DOMAIN hp)
    IN [state |-> [todos |-> r],
        heap  |-> hp @@ (r :> <<>>)]

\* default: return state
DefaultCase(st, hp) ==
    [state |-> st, heap |-> hp]

Reducer(st, hp, type, payload) ==
    CASE type = "ADD_TODO"     -> AddTodoCase(st, hp, payload)
      [] type = "REMOVE_TODO"  -> RemoveTodoCase(st, hp, payload)
      [] type = "CHANGE_TODOS" -> ChangeTodosCase(st, hp, payload)
      [] OTHER                 -> DefaultCase(st, hp)

----------------------------------------------------------------------------
(* The view *)

\* Index.render: the flag, and one UserSelect per row; a row that was there
\* keeps its widget, a new row mounts one (its effect starts a fetch), a row
\* that is gone unmounts its widget
RenderIndex(todos, mounted) ==
    [allTodosIsDone |-> AllTodosIsDone(todos),
     selects |-> [k \in 1..Len(todos) |->
                     IF k <= Len(mounted) THEN mounted[k] ELSE "pending"]]

NoTodo == [title |-> <<>>, isDone |-> FALSE, user |-> Undefined]

\* the record of an event, taken when its handler starts; again: the event
\* repeats the one before it (the same list handed to changeTodo, the same
\* request dispatched at the same index, in range the first time, the same
\* row's checkbox); origin: the list the first of the two checkbox events met
Event(op) ==
    [op          |-> op,
     type        |-> "",
     idx         |-> 0,
     key         |-> 0,
     todo        |-> NoTodo,
     user        |-> Undefined,
     beforeRef   |-> state.todos,
     beforeList  |-> heap[state.todos],
     draftBefore |-> <<>>,
     adds        |-> 0,
     threw       |-> FALSE,
     result      |-> <<>>,
     again       |-> FALSE,
     origin      |-> <<>>]

\* The end of every event handler, with the store at (st, hp): the store's
\* subscribers run (App and every UserSelect select state.list.todos and
\* re-render when the ref they get is another one), Index re-renders when
\* its props changed or it called setState, and InputNewTodo's
\* componentDidUpdate copies a changed todoTitle into its own state.
Commit(hp, st, titleSet, title, h) ==
    LET pt       == IF st.todos # propsTodos THEN st.todos ELSE propsTodos
        rendered == titleSet \/ st.todos # propsTodos
        view     == RenderIndex(hp[pt], selects)
        tt       == IF titleSet THEN title ELSE todoTitle
        sl       == IF rendered \/ st.todos # selTodos THEN st.todos ELSE selTodos
        \* the effect has no cleanup: an unmounted widget's fetch stays in flight
        holders  == <<st.todos, pt, sl, h.beforeRef>>
        live     == {st.todos, pt, sl, h.beforeRef}
        kept     == Collect(hp, live)
        dropped  == IF rendered
                    THEN Cardinality({k \in DOMAIN selects :
                                         k > Len(view.selects) /\ selects[k] = "pending"})
                    ELSE 0
    IN /\ orphans + dropped <= MaxOrphans
       /\ orphans' = orphans + dropped
       /\ lateUpdate' = lateUpdate
       /\ state' = [st EXCEPT !.todos = Renumber(holders, @)]
       /\ propsTodos' = Renumber(holders, pt)
       /\ selTodos' = Renumber(holders, sl)
       /\ todoTitle' = tt
       /\ inputState' = IF tt # todoTitle
                        THEN [isNull |-> FALSE, value |-> tt]
                        ELSE inputState
       /\ allTodosIsDone' = IF rendered THEN view.allTodosIsDone ELSE allTodosIsDone
       /\ selects' = IF rendered THEN view.selects ELSE selects
       /\ hist' = [h EXCEPT !.beforeRef = Renumber(holders, @)]
       /\ heap' = [n \in 1..Cardinality(live) |->
                      kept[CHOOSE r \in live : Renumber(holders, r) = n]]

Init ==
    /\ heap = (1 :> <<>>)
    /\ state = [todos |-> 1]
    /\ propsTodos = 1
    /\ selTodos = 1
    /\ todoTitle = <<>>
    /\ inputState = [isNull |-> TRUE, value |-> <<>>]
    /\ allTodosIsDone = AllTodosIsDone(<<>>)
    /\ selects = <<>>
    /\ orphans = 0
    /\ lateUpdate = FALSE
    /\ hist = [op |-> "init", type |-> "", idx |-> 0, key |-> 0, todo |-> NoTodo,
               user |-> Undefined, beforeRef |-> 1, beforeList |-> <<>>,
               draftBefore |-> <<>>, adds |-> 0, threw |-> FALSE, result |-> <<>>,
               again |-> FALSE, origin |-> <<>>]

----------------------------------------------------------------------------
(* The input widget *)

\* InputNewTodo.handleChange -> Index.handleTodoTitle
InputChange(text) ==
    Commit(heap, state, TRUE, text, Event("change"))

\* a handler every key confirms
ConfirmsAnyKey(keyCode) == TRUE

\* handleKeyDown's first test: if (event.keyCode !== 13) return
Confirms(keyCode) == keyCode = Enter

\* InputNewTodo.handleKeyDown
KeyDown(keyCode) ==
    LET h == [Event("keydown") EXCEPT !.key = keyCode, !.draftBefore = todoTitle]
    IN IF ~Confirms(keyCode)
       THEN Commit(heap, state, FALSE, <<>>, h)
       ELSE IF inputState.isNull
       THEN \* this.state.value of a null state: TypeError
            Commit(heap, state, FALSE, <<>>, [h EXCEPT !.threw = TRUE])
       ELSE IF Trim(inputState.value) # <<>>
       THEN LET todo == [title |-> inputState.value, isDone |-> FALSE, user |-> Undefined]
                r    == Reducer(state, heap, "ADD_TODO", todo)
            IN /\ Len(heap[state.todos]) < MaxTodos
               /\ Commit(r.heap, r.state, TRUE, <<>>,
                         [h EXCEPT !.type = "ADD_TODO", !.todo = todo, !.adds = 1])
       ELSE Commit(heap, state, FALSE, <<>>, h)

----------------------------------------------------------------------------
(* The list view's row widgets *)

\* a checkbox handler whose list is the one a view held that had missed the
\* event before this one
ToggleChangeStale(idx) ==
    LET changedTodos == ToggleTodos(hist.beforeList, idx)
        a  == Alloc(DOMAIN heap)
        hp == heap @@ (a :> changedTodos)
        r  == Reducer(state, hp, "CHANGE_TODOS", a)
    IN Commit(r.heap, r.state, FALSE, <<>>,
              [Event("toggle") EXCEPT !.type = "CHANGE_TODOS", !.idx = idx,
                                      !.result = changedTodos])

\* the checkbox's onChange of row idx -> changeTodo
ToggleChange(idx) ==
    LET changedTodos == ToggleTodos(heap[propsTodos], idx)
        a  == Alloc(DOMAIN heap)
        hp == heap @@ (a :> changedTodos)
        r  == Reducer(state, hp, "CHANGE_TODOS", a)
        second == /\ hist.op = "toggle"
                  /\ hist.idx = idx
                  /\ 0 <= idx
                  /\ idx < Len(hist.beforeList)
    IN Commit(r.heap, r.state, FALSE, <<>>,
              [Event("toggle") EXCEPT !.type = "CHANGE_TODOS", !.idx = idx,
                                      !.result = changedTodos,
                                      !.again = second,
                                      !.origin = IF second THEN hist.beforeList
                                                 ELSE <<>>])

\* an assignment sent under the type the reducer handles
AssignTypeHandled == "CHANGE_TODOS"

\* the type handleChange dispatches: dispatch({type: 'CHANGE_TODO', ...})
AssignType == "CHANGE_TODO"

\* UserSelect.handleChange of the widget with props.idx = idx
UserSelectChange(idx, value) ==
    LET changedTodos == AssignTodos(heap[selTodos], idx, value)
        a  == Alloc(DOMAIN heap)
        hp == heap @@ (a :> changedTodos)
        r  == Reducer(state, hp, AssignType, a)
    IN Commit(r.heap, r.state, FALSE, <<>>,
              [Event("assign") EXCEPT !.type = AssignType, !.idx = idx,
                                      !.user = value, !.result = changedTodos])

\* what a UserSelect holds, its only state: options, [] from useState([])
\* until setOptions(users) has run
Options(fetch) == IF fetch = "loaded" THEN UserIds ELSE {}

\* the fetches issued so far are at least these: the effect of every mounted
\* UserSelect has run once, and so had that of every unmounted one whose
\* fetch is still in flight
Fetches == Len(selects) + orphans

\* the fetch of row k's UserSelect resolves: setOptions(users)
FetchResolve(k) ==
    /\ k \in DOMAIN selects
    /\ selects[k] = "pending"
    /\ selects' = [selects EXCEPT ![k] = "loaded"]
    /\ UNCHANGED <<heap, state, propsTodos, selTodos, todoTitle, inputState,
                   allTodosIsDone, hist, orphans, lateUpdate>>

\* the fetch of row k's UserSelect fails: nothing handles the rejection
FetchReject(k) ==
    /\ k \in DOMAIN selects
    /\ selects[k] = "pending"
    /\ selects' = [selects EXCEPT ![k] = "rejected"]
    /\ UNCHANGED <<heap, state, propsTodos, selTodos, todoTitle, inputState,
                   allTodosIsDone, hist, orphans, lateUpdate>>

\* the fetch of an unmounted UserSelect resolves: its then() still runs
\* setOptions(users), on a component that is gone
OrphanResolve ==
    /\ orphans > 0
    /\ orphans' = orphans - 1
    /\ lateUpdate' = TRUE
    /\ UNCHANGED <<heap, state, propsTodos, selTodos, todoTitle, inputState,
                   allTodosIsDone, selects, hist>>

\* the fetch of an unmounted UserSelect fails
OrphanReject ==
    /\ orphans > 0
    /\ orphans' = orphans - 1
    /\ UNCHANGED <<heap, state, propsTodos, selTodos, todoTitle, inputState,
                   allTodosIsDone, selects, hist, lateUpdate>>

----------------------------------------------------------------------------
(* The container operations connect() hands to Index, and the store's own *)

\* addTodo: dispatch({type: 'ADD_TODO', payload: todo})
AddTodo(todo) ==
    LET r == Reducer(state, heap, "ADD_TODO", todo)
    IN /\ Len(heap[state.todos]) < MaxTodos
       /\ Commit(r.heap, r.state, FALSE, <<>>,
                 [Event("add") EXCEPT !.type = "ADD_TODO", !.todo = todo, !.adds = 1])

\* changeTodo: dispatch({type: 'CHANGE_TODOS', payload: todos})
ChangeTodo(todos) ==
    LET a  == Alloc(DOMAIN heap)
        hp == heap @@ (a :> todos)
        r  == Reducer(state, hp, "CHANGE_TODOS", a)
    IN Commit(r.heap, r.state, FALSE, <<>>,
              [Event("replace") EXCEPT !.type = "CHANGE_TODOS", !.result = todos,
                  !.again = (hist.op = "replace" /\ hist.result = todos)])

\* removeTodo: dispatch({type: 'REMOVE_TODOS', payload: index})
RemoveTodo(index) ==
    LET r == Reducer(state, heap, "REMOVE_TODOS", index)
    IN Commit(r.heap, r.state, FALSE, <<>>,
              [Event("remove") EXCEPT !.type = "REMOVE_TODOS", !.idx = index])

\* store.dispatch of a request no component sends: REMOVE_TODO, or a type
\* the reducer has no case for
Dispatch(type, index) ==
    LET r == Reducer(state, heap, type, index)
    IN Commit(r.heap, r.state, FALSE, <<>>,
              [Event("dispatch") EXCEPT !.type = type, !.idx = index,
                  !.again = /\ hist.op = "dispatch"
                            /\ hist.type = type
                            /\ hist.idx = index
                            /\ 0 <= index
                            /\ index < Len(hist.beforeList)])

RawTypes == {"REMOVE_TODO", "TOGGLE", "@@redux/PROBE_UNKNOWN_ACTION"}

----------------------------------------------------------------------------
(* The application, driven by its user and by the network *)

Rows == 0..(Len(selects) - 1)

Next ==
    \/ \E text \in Drafts : InputChange(text)
    \/ \E keyCode \in KeyCodes : KeyDown(keyCode)
    \/ \E idx \in Rows : ToggleChange(idx)
    \/ \E idx \in Rows, u \in UserIds :
          /\ selects[idx + 1] = "loaded"
          /\ UserSelectChange(idx, Str(u))
    \/ \E k \in DOMAIN selects : FetchResolve(k)
    \/ \E k \in DOMAIN selects : FetchReject(k)

Spec == Init /\ [][Next]_vars

(* The application with rows that go away: the user's events, REMOVE_TODO *)
(* dispatched to the store, and the fetches of the unmounted widgets      *)

NextFetch ==
    \/ Next
    \/ \E index \in Rows : Dispatch("REMOVE_TODO", index)
    \/ OrphanResolve
    \/ OrphanReject

SpecFetch == Init /\ [][NextFetch]_vars

(* The container and the update functions, driven with every request *)

NextStore ==
    \/ \E todo \in StoreTodos : AddTodo(todo)
    \/ \E todos \in StoreLists : ChangeTodo(todos)
    \/ \E index \in Indices : RemoveTodo(index)
    \/ \E type \in RawTypes :
          \E index \in (IF type = "REMOVE_TODO" THEN Indices ELSE {0}) :
              Dispatch(type, index)
    \/ \E idx \in Indices : ToggleChange(idx)
    \/ \E idx \in Indices, u \in UserIds : UserSelectChange(idx, Str(u))

SpecStore == Init /\ [][NextStore]_vars

----------------------------------------------------------------------------
(* What the claims speak of *)

\* the container's list
Todos == heap[state.todos]

InRange(i, list) == 0 <= i /\ i < Len(list)

Blank(s) == \A k \in 1..Len(s) : s[k] = SP

\* s without its leading and trailing spaces
Trimmed(s) ==
    LET inked == {k \in 1..Len(s) : s[k] # SP}
    IN IF inked = {} THEN <<>>
       ELSE SubSeq(s, CHOOSE k \in inked : \A j \in inked : k <= j,
                      CHOOSE k \in inked : \A j \in inked : k >= j)

\* list without its element at JavaScript index i
Without(list, i) ==
    [k \in 1..(Len(list) - 1) |-> IF k <= i THEN list[k] ELSE list[k + 1]]

EnterPressed == hist.op = "keydown" /\ hist.key = Enter

----------------------------------------------------------------------------
(* C1..C10 *)

\* C1: no update mutates a list handed out before: the array the container
\* held when the request arrived still has the length and the elements it
\* had then.
C1_SnapshotUntouched ==
    heap[hist.beforeRef] = hist.beforeList

\* C2: after a successful update (an add, or a toggle, an assignment or a
\* remove at an index in range) the container holds another list reference
\* than before it.
C2_NewReference ==
    (\/ hist.op = "add"
     \/ /\ hist.op \in {"toggle", "assign", "remove"}
        /\ InRange(hist.idx, hist.beforeList))
    => state.todos # hist.beforeRef

\* C3: after add(todo) the list is one longer, todo is its last element, and
\* every earlier element is where and what it was.
C3_AddAppends ==
    hist.type = "ADD_TODO"
    => /\ Len(Todos) = Len(hist.beforeList) + 1
       /\ Todos[Len(Todos)] = hist.todo
       /\ \A k \in 1..Len(hist.beforeList) : Todos[k] = hist.beforeList[k]

C3_Witness ==
    /\ hist.type = "ADD_TODO"
    /\ hist.beforeList # <<>>
    /\ hist.todo # hist.beforeList[1]

\* C4: a toggle at an index in range flips isDone of that element and
\* changes nothing else: same length, same title and user there, every other
\* element equal to what it was.
C4_ToggleOnlyIsDone ==
    (hist.op = "toggle" /\ InRange(hist.idx, hist.beforeList))
    => /\ Len(Todos) = Len(hist.beforeList)
       /\ \A k \in 1..Len(Todos) :
             IF k - 1 = hist.idx
             THEN /\ Todos[k].isDone = ~hist.beforeList[k].isDone
                  /\ Todos[k].title = hist.beforeList[k].title
                  /\ Todos[k].user = hist.beforeList[k].user
             ELSE Todos[k] = hist.beforeList[k]

C4_Witness ==
    /\ hist.op = "toggle"
    /\ hist.idx = 1
    /\ Len(hist.beforeList) = MaxTodos
    /\ Todos # hist.beforeList

\* C5: after the assignment widget of an in-range row emits user u, the
\* container's list is the old one except that the todo of that row has u
\* as its user.
C5_AssignStored ==
    (hist.op = "assign" /\ InRange(hist.idx, hist.beforeList))
    => /\ Len(Todos) = Len(hist.beforeList)
       /\ \A k \in 1..Len(Todos) :
             IF k - 1 = hist.idx
             THEN /\ Todos[k].user.v = hist.user.v
                  /\ Todos[k].user.kind # "undefined"
                  /\ Todos[k].title = hist.beforeList[k].title
                  /\ Todos[k].isDone = hist.beforeList[k].isDone
             ELSE Todos[k] = hist.beforeList[k]

\* C6: the view's remove request removes the element at an index in range,
\* keeping the others in order, and changes nothing at an index out of range.
C6_RemoveReachesContainer ==
    hist.op = "remove"
    => IF InRange(hist.idx, hist.beforeList)
       THEN Todos = Without(hist.beforeList, hist.idx)
       ELSE Todos = hist.beforeList

\* C7: a toggle or an assignment at an index out of range computes, and
\* leaves in the container, a list equal in content to the one it started from.
C7_OutOfRangeUnchanged ==
    (hist.op \in {"toggle", "assign"} /\ ~InRange(hist.idx, hist.beforeList))
    => /\ hist.result = hist.beforeList
       /\ Todos = hist.beforeList

C7_Witness ==
    /\ hist.op = "toggle"
    /\ hist.idx = Len(hist.beforeList)
    /\ hist.beforeList # <<>>
    /\ state.todos # hist.beforeRef

\* C8: the "all todos is done" checkbox is checked exactly when the list is
\* not empty and every todo of it is done.
C8_CheckboxIsAllDone ==
    allTodosIsDone =
        (Len(heap[propsTodos]) > 0
         /\ \A k \in 1..Len(heap[propsTodos]) : heap[propsTodos][k].isDone)

\* C9: Enter on a draft that is not blank emits exactly one add, of a todo
\* whose title is the trimmed draft and that is not done, and clears the draft.
C9_ConfirmAddsTrimmed ==
    (EnterPressed /\ ~Blank(hist.draftBefore))
    => /\ hist.adds = 1
       /\ hist.todo.title = Trimmed(hist.draftBefore)
       /\ hist.todo.isDone = FALSE
       /\ todoTitle = <<>>

\* C10: Enter on an empty or blank draft emits no add and leaves the draft
\* (and the list) as it was.
C10_BlankConfirmIgnored ==
    (EnterPressed /\ Blank(hist.draftBefore))
    => /\ hist.adds = 0
       /\ todoTitle = hist.draftBefore
       /\ Todos = hist.beforeList

C10_Witness ==
    /\ EnterPressed
    /\ hist.draftBefore = <<SP>>
    /\ ~hist.threw
    /\ hist.adds = 0

----------------------------------------------------------------------------
(* C11..C20 *)

HandledTypes == {"ADD_TODO", "REMOVE_TODO", "CHANGE_TODOS"}

\* C11: a request whose type the reducer has no case for changes nothing:
\* the container holds the same list reference, with the same content.
C11_UnknownTypeNoOp ==
    (hist.op # "init" /\ hist.type \notin HandledTypes)
    => /\ state.todos = hist.beforeRef
       /\ Todos = hist.beforeList

C11_Witness ==
    /\ hist.op = "dispatch"
    /\ hist.type = "TOGGLE"
    /\ hist.beforeList # <<>>

C13_RemoveTwice ==
    (hist.type = "REMOVE_TODO" /\ hist.again)
    => /\ ~hist.threw
       /\ IF InRange(hist.idx, hist.beforeList)
          THEN Todos = Without(hist.beforeList, hist.idx)
          ELSE Todos = hist.beforeList

C13_Witness ==
    /\ hist.type = "REMOVE_TODO"
    /\ hist.again
    /\ hist.idx = Len(hist.beforeList)
    /\ hist.beforeList # <<>>

\* C14: replaceAll(list) leaves the container with the content of list,
\* whatever it held; replaceAll of the same list a second time leaves the
\* content the first one left.
C14_ReplaceAllIdempotent ==
    hist.op = "replace"
    => /\ Todos = hist.result
       /\ hist.again => Todos = hist.beforeList

C14_Witness ==
    /\ hist.op = "replace"
    /\ hist.again
    /\ hist.result # <<>>
    /\ state.todos # hist.beforeRef

\* C15: no state update of an unmounted UserSelect ever occurs: a fetch
\* that resolves after its widget is gone does not call setOptions on it.
C15_NoUpdateAfterUnmount ==
    ~lateUpdate

\* C16: a failed fetch leaves its widget in a state of its own, not the
\* one it has while the fetch is in flight.
C16_FailureObservable ==
    \A k \in DOMAIN selects :
        selects[k] = "rejected" => Options(selects[k]) # Options("pending")

\* C17: no user event raises an error.
C17_NoEventThrows ==
    ~hist.threw

\* C18: the draft has one source of truth: whenever a key event may arrive,
\* the value InputNewTodo keeps in its state is the draft Index holds and
\* the input shows.
C18_SingleDraft ==
    /\ ~inputState.isNull
    /\ inputState.value = todoTitle

\* C19: every todo in the container has a title that is not blank.
C19_TitlesNotBlank ==
    \A k \in 1..Len(Todos) : ~Blank(Todos[k].title)

C19_Witness ==
    /\ Len(Todos) = MaxTodos
    /\ \E k \in 1..Len(Todos) : Todos[k].title = <<SP, CA, SP>>
    /\ todoTitle = <<SP>>

\* C20: at most one fetch of the users is issued, however many todos there are.
C20_FetchedOnce ==
    Fetches <= 1

\* C21: a key-down of any key but Enter emits no add request and changes
\* neither the draft (either copy of it) nor the todo list.
C21_OnlyEnterConfirms ==
    (hist.op = "keydown" /\ hist.key # 13)
    => /\ hist.adds = 0
       /\ ~hist.threw
       /\ todoTitle = hist.draftBefore
       /\ Todos = hist.beforeList
       /\ state.todos = hist.beforeRef

\* another key pressed on a draft that Enter would have added
C21_Witness ==
    /\ hist.op = "keydown"
    /\ hist.key # 13
    /\ ~inputState.isNull
    /\ ~Blank(hist.draftBefore)
    /\ Len(Todos) < MaxTodos

\* C22: after a toggle or an assignment, whatever adds, toggles and
\* assignments came before it, the container's list holds every todo it held
\* just before, in the same order: as many rows, each with its title, and
\* every row but the handler's own exactly as it was.
C22_ReplacementKeepsTodos ==
    hist.op \in {"toggle", "assign"}
    => /\ Len(Todos) = Len(hist.beforeList)
       /\ \A k \in 1..Len(hist.beforeList) :
              /\ Todos[k].title = hist.beforeList[k].title
              /\ (k - 1 # hist.idx => Todos[k] = hist.beforeList[k])

\* the second row, added after the first row was toggled, is toggled in turn
C22_Witness ==
    /\ hist.op = "toggle"
    /\ hist.idx = 1
    /\ Len(hist.beforeList) = 2
    /\ hist.beforeList[1].isDone
    /\ hist.beforeList[1].title # hist.beforeList[2].title
    /\ Todos[2].isDone

\* C23: toggling a row that is there twice in succession gives back a list
\* whose content is the list before the first of the two toggles.
C23_ToggleTwiceRestores ==
    (hist.op = "toggle" /\ hist.again) => Todos = hist.origin

\* the second of two toggles of the second row of a two-row list
C23_Witness ==
    /\ hist.op = "toggle"
    /\ hist.again
    /\ hist.idx = 1
    /\ Len(hist.origin) = 2
    /\ hist.beforeList # hist.origin
    /\ Todos # hist.beforeList

\* the views' snapshots are the container's list at every event
SnapshotsCurrent ==
    /\ heap[propsTodos] = Todos
    /\ heap[selTodos] = Todos

\* what does hold of the two copies of the draft: once InputNewTodo has a
\* state, its value is the draft
DraftCopiesAgree ==
    ~inputState.isNull => inputState.value = todoTitle

====
